---- MODULE Spec2Model ----
(***************************************************************************)
(* A model of .github/scripts/junit-report.py: main() parses a JUnit XML   *)
(* report, extracts one record per failed test case and publishes the      *)
(* records on four sinks (console, ::error annotations, the step summary   *)
(* file, a pull-request comment kept through the gh CLI).                  *)
(*                                                                         *)
(* Text is a sequence of one-character strings, so that strip, split,      *)
(* startswith, slicing and replace are computed, not assumed.              *)
(***************************************************************************)
EXTENDS Integers, Sequences, FiniteSets, TLC

\* ------------------------------------------------------------------ bounds
\* Longest document, in testcase elements, of the extraction specification.
MaxCases == 2
\* Length of the long one-line body and of the long message attribute.
LongLen == 300
\* Successive invocations of the script on the same pull request.
MaxRuns == 2

\* -------------------------------------------------------- program constants
\* line[:200]
ShortMax == 200
\* detail.split("\n")[:15]
DetailLines == 15
\* '=' * 60
BorderLen == 60

\* ------------------------------------------------------------ str methods
\* The whitespace of the model's alphabet; str.strip() removes all of it.
Whitespace == {" ", "\n", "\t"}

\* The least k in lo..hi with (s[k] \in chars) = member, 0 when there is
\* none; by halving, so that a long text does not nest deeply.
RECURSIVE first(_, _, _, _, _)
first(s, chars, member, lo, hi) ==
  IF lo > hi THEN 0
  ELSE IF lo = hi THEN (IF (s[lo] \in chars) = member THEN lo ELSE 0)
  ELSE LET mid == (lo + hi) \div 2
           k == first(s, chars, member, lo, mid)
       IN IF k # 0 THEN k ELSE first(s, chars, member, mid + 1, hi)

\* The greatest such k, 0 when there is none.
RECURSIVE last(_, _, _, _, _)
last(s, chars, member, lo, hi) ==
  IF lo > hi THEN 0
  ELSE IF lo = hi THEN (IF (s[lo] \in chars) = member THEN lo ELSE 0)
  ELSE LET mid == (lo + hi) \div 2
           k == last(s, chars, member, mid + 1, hi)
       IN IF k # 0 THEN k ELSE last(s, chars, member, lo, mid)

\* str.lstrip()
lstrip(s) ==
  LET k == first(s, Whitespace, FALSE, 1, Len(s)) IN
  IF k = 0 THEN <<>> ELSE SubSeq(s, k, Len(s))

\* str.rstrip(chars)
rstripChars(s, chars) == SubSeq(s, 1, last(s, chars, FALSE, 1, Len(s)))

\* str.rstrip()
rstrip(s) == rstripChars(s, Whitespace)

\* str.strip()
strip(s) == rstrip(lstrip(s))

\* str.split(c): the pieces between the occurrences of c, never empty.
RECURSIVE split(_, _)
split(s, c) ==
  LET k == first(s, {c}, TRUE, 1, Len(s)) IN
  IF k = 0 THEN <<s>>
  ELSE <<SubSeq(s, 1, k - 1)>> \o split(SubSeq(s, k + 1, Len(s)), c)

\* str.startswith(p)
startswith(s, p) == Len(s) >= Len(p) /\ SubSeq(s, 1, Len(p)) = p

\* s[:n]
slice(s, n) == SubSeq(s, 1, IF Len(s) < n THEN Len(s) ELSE n)

\* sep.join(parts)
RECURSIVE join(_, _)
join(parts, sep) ==
  IF parts = <<>> THEN <<>>
  ELSE IF Len(parts) = 1 THEN parts[1]
  ELSE parts[1] \o sep \o join(Tail(parts), sep)

\* str.replace(c, r) for a single character c: every occurrence of c
\* becomes r.
replace(s, c, r) == join(split(s, c), r)

\* c * n
Rep(c, n) == [k \in 1..n |-> c]

\* ---------------------------------------------------------------- literals
RunMarker == <<"=", "=", "=", " ", "R", "U", "N">>
FailMarker == <<"-", "-", "-", " ", "F", "A", "I", "L">>
FailedLit == <<"f", "a", "i", "l", "e", "d">>
DefaultHeading == <<"T", "e", "s", "t", " ", "F", "a", "i", "l", "u", "r", "e", "s">>

\* ------------------------------------------------------------ the XML tree
\* An optional value (an attribute, an element's text) is <<>> when absent
\* and <<v>> when present.
Absent == <<>>
Present(v) == <<v>>

\* Element.get(key, default)
get(attr, default) == IF attr = Absent THEN default ELSE attr[1]

\* x or y, for an optional text x: None and "" are both falsy.
Truthy(opt) == opt # Absent /\ opt[1] # <<>>

\* An element below a testcase: its tag, text, message attribute and the
\* elements nested in it.
Elem(tag, text, message, inner) ==
  [tag |-> tag, text |-> text, message |-> message, inner |-> inner]

Failure(text, message) == Elem("failure", text, message, <<>>)

\* A testcase element: its attributes and its direct children, in order.
Testcase(classname, name, children) ==
  [classname |-> classname, name |-> name, children |-> children]

\* A find that also looks below the direct children.
RECURSIVE findDeepIn(_, _, _)
findDeepIn(children, tag, k) ==
  IF k > Len(children) THEN <<>>
  ELSE IF children[k].tag = tag THEN <<children[k]>>
  ELSE IF findDeepIn(children[k].inner, tag, 1) # <<>>
       THEN findDeepIn(children[k].inner, tag, 1)
  ELSE findDeepIn(children, tag, k + 1)

findDeep(tc, tag) == findDeepIn(tc.children, tag, 1)

\* Element.find("failure"): the first DIRECT child with that tag, or None.
RECURSIVE findIndex(_, _, _)
findIndex(children, tag, k) ==
  IF k > Len(children) THEN 0
  ELSE IF children[k].tag = tag THEN k
  ELSE findIndex(children, tag, k + 1)

find(tc, tag) ==
  LET k == findIndex(tc.children, tag, 1) IN
  IF k = 0 THEN Absent ELSE Present(tc.children[k])

\* ------------------------------------------------------------- extraction
\* Line 41: the failure body, else the message attribute, else "", stripped.
detailOf(f) ==
  strip(IF Truthy(f.text) THEN f.text[1]
        ELSE IF Truthy(f.message) THEN f.message[1]
        ELSE <<>>)

\* The test of line 46 without its "--- FAIL" part.
meaningfulNoFail(line) == line # <<>> /\ ~startswith(line, RunMarker)

\* Line 46: the test a stripped line must pass to become the short message.
meaningful(line) ==
  /\ line # <<>>
  /\ ~startswith(line, RunMarker)
  /\ ~startswith(line, FailMarker)

\* Lines 43-48: the loop over the lines of the detail, with its break;
\* "" when the loop ends without an assignment.
RECURSIVE firstShort(_)
firstShort(lines) ==
  IF lines = <<>> THEN <<>>
  ELSE LET line == strip(lines[1]) IN
       IF meaningful(line) THEN slice(line, ShortMax)
       ELSE firstShort(Tail(lines))

\* Lines 43-50: the short message of a failure element.
shortOf(f) ==
  LET short == firstShort(split(detailOf(f), "\n")) IN
  IF short = <<>> THEN get(f.message, FailedLit) ELSE short

\* Lines 38-51: the tuple appended for testcase tc and its failure child f.
recordOf(tc, f) ==
  [pkg |-> get(tc.classname, <<>>),
   name |-> get(tc.name, <<>>),
   short |-> shortOf(f),
   detail |-> detailOf(f)]

\* Line 51: failures.append(...)
appendFailure(fs, rec) == Append(fs, rec)

\* ------------------------------------------------------------------ inputs
Boom == <<"b", "o", "o", "m">>
ErrLine == <<"a", "c", "t", "u", "a", "l", " ", "e", "r", "r", "o", "r", " ", "h", "e", "r", "e">>
\* "=== RUN foo\n\n  actual error here\nmore"
ExampleText == RunMarker \o <<" ", "f", "o", "o", "\n", "\n", " ", " ">> \o ErrLine \o <<"\n", "m", "o", "r", "e">>
\* One line of LongLen characters.
LongText == Rep("x", LongLen)
LongMessage == Rep("m", LongLen)
\* "=== RUN f\n  --- FAIL f": no line qualifies as a short message.
MarkersOnly == RunMarker \o <<" ", "f", "\n", " ", " ">> \o FailMarker \o <<" ", "f">>
BlankText == <<" ", "\n", "\t">>
PipeText == <<"a", "|", "b">>
\* DetailLines + 1 lines "l".
ManyLines == [k \in 1..(2 * DetailLines + 1) |-> IF k % 2 = 1 THEN "l" ELSE "\n"]
Assertion == <<"a", "s", "s", "e", "r", "t", "i", "o", "n", " ", "f", "a", "i", "l", "e", "d">>

PkgA == <<"p", "k", "g", ".", "A">>
PkgB == <<"p", "k", "g", ".", "B">>
TestX == <<"t", "e", "s", "t", "X">>
TestY == <<"t", "e", "s", "t", "Y">>

\* The bodies and message attributes a failure element is drawn from.
Texts ==
  {Absent, Present(ExampleText), Present(LongText), Present(MarkersOnly),
   Present(BlankText)}
Messages == {Absent, Present(Boom), Present(LongMessage), Present(<<>>)}
FailureElems == {Failure(t, m) : t \in Texts, m \in Messages}

Passing == Testcase(Present(PkgA), Present(TestY), <<>>)
\* Two failure children in one testcase.
TwoFailures ==
  Testcase(Present(PkgB), Present(TestX),
           <<Failure(Present(ErrLine), Absent), Failure(Absent, Present(Boom))>>)
\* A failure element that is a grandchild of its testcase.
NestedFailure ==
  Testcase(Present(PkgB), Present(TestY),
           <<Elem("system-out", Absent, Absent, <<Failure(Absent, Present(Boom))>>)>>)
\* A failure child after a child of another tag.
LaterFailure ==
  Testcase(Present(PkgB), Present(TestX),
           <<Elem("system-out", Present(Boom), Absent, <<>>),
             Failure(Present(ErrLine), Absent)>>)
\* A failing testcase with neither classname nor name.
NoAttrs == Testcase(Absent, Absent, <<Failure(Absent, Absent)>>)

Testcases ==
  {Testcase(Present(PkgA), Present(TestX), <<f>>) : f \in FailureElems}
    \cup {Passing, TwoFailures, NestedFailure, LaterFailure, NoAttrs}

\* The documents of the extraction specification: every sequence of at most
\* MaxCases of these testcase elements, in document order.
ExtractDocs == UNION {[1..n -> Testcases] : n \in 0..MaxCases}

\* The documents of the reporting specification.
ReportDocs ==
  {<<>>,
   <<Passing>>,
   <<NestedFailure>>,
   <<Passing, Testcase(Present(PkgA), Present(TestX),
                       <<Failure(Absent, Present(Assertion))>>)>>,
   <<Testcase(Present(PkgA), Present(TestX), <<Failure(Present(PipeText), Absent)>>),
     Testcase(Present(PkgB), Present(TestY), <<Failure(Present(ManyLines), Absent)>>)>>}

Prog == <<"j">>
XmlPath == <<"r", ".", "x", "m", "l">>
Unit == <<"U", "n", "i", "t">>
\* sys.argv: the program alone, with the path, with the path and a heading.
Argvs == {<<Prog>>, <<Prog, XmlPath>>, <<Prog, XmlPath, Unit>>}

SummaryPath == <<"s", ".", "m", "d">>
PrNumber == <<"7">>

\* ------------------------------------------------------------------- state
VARIABLES
  argv,           \* sys.argv
  fileExists,     \* os.path.exists(xml_path)
  doc,            \* the testcase elements of the file, in document order
  summary_path,   \* os.environ.get("GITHUB_STEP_SUMMARY", "")
  pr_number,      \* os.environ.get("PR_NUMBER", "")
  comments,       \* the comments of the pull request, oldest first
  summaryFile,    \* the strings appended to the summary file, in order
  run,            \* which invocation of the script this is
  pc,             \* the position of main()
  tcIndex,        \* the position of the loop of line 35 in doc
  failures,       \* the list of line 34
  stdout,         \* the strings given to print(), one per call
  stderr,         \* the strings given to print(file=sys.stderr)
  summaryState,   \* the with block of line 75 in this run: "closed" while
                  \* open() was not called, "written", or "failed"
  cliCalls,       \* the subprocess.run calls of this run, with their outcomes
  result_stdout,  \* result.stdout of the lookup call
  exitStatus,     \* the exit status of the process, -1 while it runs
  uncaught        \* the exception that left main(), "" when none did

inputs == <<argv, fileExists, doc, summary_path, pr_number>>
process == <<pc, tcIndex, failures, stdout, stderr, summaryState, cliCalls,
             result_stdout, exitStatus, uncaught>>
vars == <<inputs, comments, summaryFile, run, process>>

\* Lines 27-28.
xml_path == argv[2]
heading == IF Len(argv) > 2 THEN argv[3] ELSE DefaultHeading

\* --------------------------------------------------------- process endings
\* main() returns: the interpreter exits with status 0.
Return ==
  /\ pc' = "done"
  /\ exitStatus' = 0

\* sys.exit(1)
Exit1 ==
  /\ pc' = "done"
  /\ exitStatus' = 1

\* An exception leaves main(): traceback, exit status 1.
Raise(exc) ==
  /\ pc' = "done"
  /\ exitStatus' = 1
  /\ uncaught' = exc

\* ------------------------------------------------------- lines 23-54: input
Usage == <<"U", "s", "a", "g", "e", ":", " ", "j", "u", "n", "i", "t", "-", "r", "e", "p", "o", "r", "t", ".", "p", "y", " ", "<", "j", "u", "n", "i", "t", ".", "x", "m", "l", ">", " ", "[", "h", "e", "a", "d", "i", "n", "g", "]">>

\* Lines 23-25.
CheckArgs ==
  /\ pc = "start"
  /\ IF Len(argv) < 2
     THEN /\ stderr' = Append(stderr, Usage)
          /\ Exit1
     ELSE /\ pc' = "exists"
          /\ UNCHANGED <<stderr, exitStatus>>
  /\ UNCHANGED <<inputs, comments, summaryFile, run, tcIndex, failures, stdout,
                 summaryState, cliCalls, result_stdout, uncaught>>

\* Lines 30-31.
CheckExists ==
  /\ pc = "exists"
  /\ IF ~fileExists
     THEN Return
     ELSE /\ pc' = "parse"
          /\ UNCHANGED exitStatus
  /\ UNCHANGED <<inputs, comments, summaryFile, run, tcIndex, failures, stdout,
                 stderr, summaryState, cliCalls, result_stdout, uncaught>>

\* Lines 33-34: the file is well-formed, ET.parse succeeds.
Parse ==
  /\ pc = "parse"
  /\ failures' = <<>>
  /\ tcIndex' = 1
  /\ pc' = "iter"
  /\ UNCHANGED <<inputs, comments, summaryFile, run, stdout, stderr,
                 summaryState, cliCalls, result_stdout, exitStatus, uncaught>>

\* Lines 35-51: one iteration of the loop over tree.iter("testcase").
IterTestcase ==
  /\ pc = "iter"
  /\ tcIndex <= Len(doc)
  /\ LET tc == doc[tcIndex]
         f == find(tc, "failure")
     IN failures' = IF f # Absent
                    THEN appendFailure(failures, recordOf(tc, f[1]))
                    ELSE failures
  /\ tcIndex' = tcIndex + 1
  /\ UNCHANGED <<inputs, comments, summaryFile, run, pc, stdout, stderr,
                 summaryState, cliCalls, result_stdout, exitStatus, uncaught>>

\* Lines 53-54 without the return: the report is printed for an empty list.
CheckEmptyNoReturn ==
  /\ pc = "iter"
  /\ tcIndex > Len(doc)
  /\ pc' = "console"
  /\ UNCHANGED <<inputs, comments, summaryFile, run, tcIndex, failures, stdout,
                 stderr, summaryState, cliCalls, result_stdout, exitStatus,
                 uncaught>>

\* Lines 53-54: the loop is over.
CheckEmpty ==
  /\ pc = "iter"
  /\ tcIndex > Len(doc)
  /\ IF failures = <<>>
     THEN Return
     ELSE /\ pc' = "console"
          /\ UNCHANGED exitStatus
  /\ UNCHANGED <<inputs, comments, summaryFile, run, tcIndex, failures, stdout,
                 stderr, summaryState, cliCalls, result_stdout, uncaught>>

\* ------------------------------------------------------ lines 56-70: stdout
Digit == <<"1", "2", "3", "4", "5", "6", "7", "8", "9">>

\* str(n), n >= 0
RECURSIVE str(_)
str(n) ==
  IF n = 0 THEN <<"0">>
  ELSE IF n < 10 THEN <<Digit[n]>>
  ELSE str(n \div 10) \o str(n % 10)

Border == Rep("=", BorderLen)

\* Lines 61-65: the print() calls for one record.
consoleRecord(rec) ==
  <<<<" ", " ", "F", "A", "I", "L", " ", " ">> \o rec.pkg \o <<".">> \o rec.name>>
    \o [k \in 1..Len(slice(split(rec.detail, "\n"), DetailLines)) |->
          Rep(" ", 8) \o split(rec.detail, "\n")[k]]
    \o << <<>> >>

RECURSIVE consoleRecords(_)
consoleRecords(fs) ==
  IF fs = <<>> THEN <<>>
  ELSE consoleRecord(fs[1]) \o consoleRecords(Tail(fs))

\* Lines 57-66: the strings printed by the console report.
consoleReport(h, fs) ==
  << <<"\n">> \o Border,
     <<" ", " ">> \o h \o <<":", " ">> \o str(Len(fs)) \o <<" ", "f", "a", "i", "l", "e", "d">>,
     Border \o <<"\n">> >>
    \o consoleRecords(fs)
    \o <<Border \o <<"\n">> >>

\* Line 70: one ::error line per record.
annotations(fs) ==
  [k \in 1..Len(fs) |->
     <<":", ":", "e", "r", "r", "o", "r", " ", "t", "i", "t", "l", "e", "=", "F", "A", "I", "L", " ">> \o fs[k].pkg \o <<".">> \o fs[k].name
       \o <<":", ":">> \o fs[k].short]

PrintConsole ==
  /\ pc = "console"
  /\ stdout' = stdout \o consoleReport(heading, failures)
  /\ pc' = "annotate"
  /\ UNCHANGED <<inputs, comments, summaryFile, run, tcIndex, failures, stderr,
                 summaryState, cliCalls, result_stdout, exitStatus, uncaught>>

PrintAnnotations ==
  /\ pc = "annotate"
  /\ stdout' = stdout \o annotations(failures)
  /\ pc' = "summary"
  /\ UNCHANGED <<inputs, comments, summaryFile, run, tcIndex, failures, stderr,
                 summaryState, cliCalls, result_stdout, exitStatus, uncaught>>

\* ------------------------------------------- lines 72-82: the summary file
\* Lines 81 and 98: escape pipes for markdown tables.
safe(short) == replace(short, "|", <<"\\", "|">>)

\* The backquote character, which a TLA+ string cannot hold.
Backtick == "backquote"

\* Lines 82 and 99, without the newline.
tableRow(rec) ==
  <<"|", " ", Backtick>> \o rec.pkg \o <<Backtick, " ", "|", " ", Backtick>> \o rec.name
    \o <<Backtick, " ", "|", " ">> \o safe(rec.short) \o <<" ", "|">>

TableHead == <<"|", " ", "P", "a", "c", "k", "a", "g", "e", " ", "|", " ", "T", "e", "s", "t", " ", "|", " ", "E", "r", "r", "o", "r", " ", "|">>
TableRule == <<"|", "-", "-", "-", "-", "-", "-", "-", "-", "-", "|", "-", "-", "-", "-", "-", "-", "|", "-", "-", "-", "-", "-", "-", "-", "|">>

\* Lines 76-82: the strings given to out.write, in order.
summaryWrites(h, fs) ==
  << <<"#", "#", " ">> \o h \o <<"\n", "\n">>,
     TableHead \o <<"\n">>,
     TableRule \o <<"\n">> >>
    \o [k \in 1..Len(fs) |-> tableRow(fs[k]) \o <<"\n">>]

\* Lines 73-74: no summary path is configured.
SkipSummary ==
  /\ pc = "summary"
  /\ summary_path = <<>>
  /\ pc' = "pr"
  /\ UNCHANGED <<inputs, comments, summaryFile, run, tcIndex, failures, stdout,
                 stderr, summaryState, cliCalls, result_stdout, exitStatus,
                 uncaught>>

\* Lines 75-82: open for appending and write; every write succeeds.
WriteSummary ==
  /\ pc = "summary"
  /\ summary_path # <<>>
  /\ summaryState' = "written"
  /\ summaryFile' = summaryFile \o summaryWrites(heading, failures)
  /\ pc' = "pr"
  /\ UNCHANGED <<inputs, comments, run, tcIndex, failures, stdout, stderr,
                 cliCalls, result_stdout, exitStatus, uncaught>>

\* A summary sink that swallows its error and goes on to the PR comment.
SummaryFailsCaught ==
  /\ pc = "summary"
  /\ summary_path # <<>>
  /\ summaryState' = "failed"
  /\ pc' = "pr"
  /\ UNCHANGED <<inputs, comments, summaryFile, run, tcIndex, failures, stdout,
                 stderr, cliCalls, result_stdout, exitStatus, uncaught>>

\* Lines 75-82: open() raises (n = 0), or a write does after n of them
\* succeeded. Nothing catches the OSError.
SummaryFails ==
  /\ pc = "summary"
  /\ summary_path # <<>>
  /\ summaryState' = "failed"
  /\ \E n \in 0..(Len(summaryWrites(heading, failures)) - 1) :
       summaryFile' = summaryFile
                        \o SubSeq(summaryWrites(heading, failures), 1, n)
  /\ Raise("OSError")
  /\ UNCHANGED <<inputs, comments, run, tcIndex, failures, stdout, stderr,
                 cliCalls, result_stdout>>

\* ------------------------------------------ lines 84-127: the PR comment
\* Line 89.
comment_marker(h) == <<"<", "!", "-", "-", " ", "j", "u", "n", "i", "t", "-", "r", "e", "p", "o", "r", "t", ":", " ">> \o h \o <<" ", "-", "-", ">">>

\* The em dash of line 101, which a TLA+ string cannot hold.
EmDash == "emdash"

Trailer == <<"_", "U", "p", "d", "a", "t", "e", "d", " ", "b", "y", " ", "C", "I", " ", EmDash, " ", "t", "h", "i", "s", " ", "c", "o", "m", "m", "e", "n", "t", " ", "i", "s", " ", "r", "e", "p", "l", "a", "c", "e", "d", " ", "o", "n", " ", "e", "a", "c", "h", " ", "p", "u", "s", "h", ".", "_">>

\* Lines 90-102.
body(h, fs) ==
  join(<<comment_marker(h), <<"#", "#", " ">> \o h, <<>>, TableHead, TableRule>>
         \o [k \in 1..Len(fs) |-> tableRow(fs[k])]
         \o << <<>>, Trailer >>,
       <<"\n">>)

\* The pull request as gh sees it: a comment is [id, body], and its url ends
\* in "/<id>", which is what line 115 takes from it.
UrlBase == <<"h", "t", "t", "p", "s", ":", "/", "/", "g", "h", "/", "o", "/", "r", "/", "c", "o", "m", "m", "e", "n", "t", "s", "/">>
url(c) == UrlBase \o str(c.id)

\* gh pr view --json comments --jq '.comments[] | select(.body |
\* startswith(marker)) | .url': one line per matching comment, oldest first.
RECURSIVE jqUrls(_, _)
jqUrls(cs, marker) ==
  IF cs = <<>> THEN <<>>
  ELSE (IF startswith(cs[1].body, marker) THEN url(cs[1]) \o <<"\n">> ELSE <<>>)
         \o jqUrls(Tail(cs), marker)

\* gh api .../issues/comments/{id} -X PATCH -f body=...: the comment with that
\* id gets the body.
patched(cs, id, b) ==
  [k \in 1..Len(cs) |-> IF str(cs[k].id) = id THEN [cs[k] EXCEPT !.body = b]
                        ELSE cs[k]]

\* gh pr comment --body ...: a new comment, with the next id.
created(cs, b) == Append(cs, [id |-> Len(cs) + 1, body |-> b])

\* How a subprocess.run call can end: exit status 0, a non-zero exit status
\* (nothing on stdout), TimeoutExpired after 15 s, an OSError at launch.
Outcomes == {"ok", "nonzero", "timeout", "oserror"}
raises(outcome) == outcome \in {"timeout", "oserror"}
exception(outcome) == IF outcome = "timeout" THEN "TimeoutExpired" ELSE "OSError"

\* A handler for OSError alone: a timeout leaves main().
handledOSErrorOnly(exc) == exc = "OSError"

\* Line 126: except Exception catches both.
handled(exc) == exc \in {"TimeoutExpired", "OSError"}

\* Lines 126-127 for a call that ended with `outcome`: pass, and on to line
\* 130; an exception that is not handled leaves main().
AfterCall(outcome, next) ==
  IF raises(outcome) /\ ~handled(exception(outcome))
  THEN Raise(exception(outcome))
  ELSE /\ pc' = (IF raises(outcome) THEN "exit" ELSE next)
       /\ UNCHANGED <<exitStatus, uncaught>>

\* Line 111.
existing_url(out) ==
  IF strip(out) # <<>> THEN split(strip(out), "\n")[1] ELSE <<>>

\* Line 115.
comment_id(u) ==
  LET parts == split(rstripChars(u, {"/"}), "/") IN parts[Len(parts)]

\* The branch of line 113 the other way round.
writeOpInverted(out) == IF existing_url(out) # <<>> THEN "create" ELSE "patch"

\* Line 113: which write call follows the lookup.
writeOp(out) == IF existing_url(out) # <<>> THEN "patch" ELSE "create"

\* Lines 85-87.
CheckPr ==
  /\ pc = "pr"
  /\ IF pr_number = <<>>
     THEN Return
     ELSE /\ pc' = "lookup"
          /\ UNCHANGED exitStatus
  /\ UNCHANGED <<inputs, comments, summaryFile, run, tcIndex, failures, stdout,
                 stderr, summaryState, cliCalls, result_stdout, uncaught>>

\* Lines 106-110: gh pr view.
Lookup ==
  /\ pc = "lookup"
  /\ \E outcome \in Outcomes :
       /\ cliCalls' = Append(cliCalls, [op |-> "lookup", outcome |-> outcome])
       /\ result_stdout' =
            IF outcome = "ok"
            THEN jqUrls(comments, comment_marker(heading))
            ELSE <<>>
       /\ AfterCall(outcome, "write")
  /\ UNCHANGED <<inputs, comments, summaryFile, run, tcIndex, failures, stdout,
                 stderr, summaryState>>

\* Lines 113-120: gh api -X PATCH. A call that timed out may have reached
\* the server or not.
Patch ==
  /\ pc = "write"
  /\ writeOp(result_stdout) = "patch"
  /\ \E outcome \in Outcomes, applied \in BOOLEAN :
       /\ applied = TRUE => outcome \in {"ok", "timeout"}
       /\ applied = FALSE => outcome # "ok"
       /\ cliCalls' = Append(cliCalls, [op |-> "patch", outcome |-> outcome])
       /\ comments' =
            IF applied
            THEN patched(comments, comment_id(existing_url(result_stdout)),
                         body(heading, failures))
            ELSE comments
       /\ AfterCall(outcome, "exit")
  /\ UNCHANGED <<inputs, summaryFile, run, tcIndex, failures, stdout, stderr,
                 summaryState, result_stdout>>

\* Lines 121-125: gh pr comment.
Create ==
  /\ pc = "write"
  /\ writeOp(result_stdout) = "create"
  /\ \E outcome \in Outcomes, applied \in BOOLEAN :
       /\ applied = TRUE => outcome \in {"ok", "timeout"}
       /\ applied = FALSE => outcome # "ok"
       /\ cliCalls' = Append(cliCalls, [op |-> "create", outcome |-> outcome])
       /\ comments' =
            IF applied THEN created(comments, body(heading, failures))
            ELSE comments
       /\ AfterCall(outcome, "exit")
  /\ UNCHANGED <<inputs, summaryFile, run, tcIndex, failures, stdout, stderr,
                 summaryState, result_stdout>>

\* Lines 129-130.
SysExit ==
  /\ pc = "exit"
  /\ Exit1
  /\ UNCHANGED <<inputs, comments, summaryFile, run, tcIndex, failures, stdout,
                 stderr, summaryState, cliCalls, result_stdout, uncaught>>

\* ---------------------------------------------------------- specification
\* A fresh process: nothing printed, nothing called, main() not yet entered.
Fresh ==
  /\ pc = "start"
  /\ tcIndex = 0
  /\ failures = <<>>
  /\ stdout = <<>>
  /\ stderr = <<>>
  /\ summaryState = "closed"
  /\ cliCalls = <<>>
  /\ result_stdout = <<>>
  /\ exitStatus = -1
  /\ uncaught = ""

\* A comment of the pull request that no run of the script wrote.
Lgtm == <<"L", "G", "T", "M">>

Init ==
  /\ argv \in Argvs
  /\ fileExists \in BOOLEAN
  /\ doc \in ReportDocs
  /\ summary_path \in {<<>>, SummaryPath}
  /\ pr_number \in {<<>>, PrNumber}
  /\ comments \in {<<>>, <<[id |-> 1, body |-> Lgtm]>>}
  /\ summaryFile = <<>>
  /\ run = 1
  /\ Fresh

\* The next push: the script is invoked again with the same arguments and
\* environment, on the same pull request and summary file.
NextRun ==
  /\ pc = "done"
  /\ run < MaxRuns
  /\ run' = run + 1
  /\ pc' = "start"
  /\ tcIndex' = 0
  /\ failures' = <<>>
  /\ stdout' = <<>>
  /\ stderr' = <<>>
  /\ summaryState' = "closed"
  /\ cliCalls' = <<>>
  /\ result_stdout' = <<>>
  /\ exitStatus' = -1
  /\ uncaught' = ""
  /\ UNCHANGED <<inputs, comments, summaryFile>>

Next ==
  \/ CheckArgs
  \/ CheckExists
  \/ Parse
  \/ IterTestcase
  \/ CheckEmpty
  \/ PrintConsole
  \/ PrintAnnotations
  \/ SkipSummary
  \/ WriteSummary
  \/ SummaryFails
  \/ CheckPr
  \/ Lookup
  \/ Patch
  \/ Create
  \/ SysExit
  \/ NextRun

Spec == Init /\ [][Next]_vars

\* The extraction alone (lines 23-51) on an existing file, over every
\* document of ExtractDocs.
InitExtract ==
  /\ argv = <<Prog, XmlPath>>
  /\ fileExists = TRUE
  /\ doc \in ExtractDocs
  /\ summary_path = <<>>
  /\ pr_number = <<>>
  /\ comments = <<>>
  /\ summaryFile = <<>>
  /\ run = 1
  /\ Fresh

NextExtract ==
  \/ CheckArgs
  \/ CheckExists
  \/ Parse
  \/ IterTestcase

SpecExtract == InitExtract /\ [][NextExtract]_vars

\* ------------------------------------------------------------ properties
\* main() got its path argument (lines 23-25 did not end the run).
HasPath == Len(argv) >= 2

\* The loop of line 35 has visited every testcase element.
Extracted == pc = "iter" /\ tcIndex > Len(doc)

\* The whole of what lines 56-70 print.
FullStdout == consoleReport(heading, failures) \o annotations(failures)

\* A testcase element with a failure element among its direct children.
HasFailureChild(tc) ==
  \E k \in 1..Len(tc.children) : tc.children[k].tag = "failure"

\* Its first failure child.
FirstFailureChild(tc) ==
  tc.children[CHOOSE k \in 1..Len(tc.children) :
                /\ tc.children[k].tag = "failure"
                /\ \A j \in 1..(k - 1) : tc.children[j].tag # "failure"]

\* The failure elements of a list of elements and of what is nested in them,
\* in document order.
RECURSIVE FailureElements(_)
FailureElements(elems) ==
  IF elems = <<>> THEN <<>>
  ELSE (IF elems[1].tag = "failure" THEN <<elems[1]>> ELSE <<>>)
         \o FailureElements(elems[1].inner)
         \o FailureElements(Tail(elems))

\* One record per failure element of the testcases tcs, in document order.
RECURSIVE RecordPerFailureElement(_)
RecordPerFailureElement(tcs) ==
  IF tcs = <<>> THEN <<>>
  ELSE [k \in 1..Len(FailureElements(tcs[1].children)) |->
          recordOf(tcs[1], FailureElements(tcs[1].children)[k])]
         \o RecordPerFailureElement(Tail(tcs))

\* One record per testcase of tcs that has a failure child, made from its
\* first failure child, in document order of the testcases.
RecordPerFailedTestcase(tcs) ==
  LET failed == SelectSeq(tcs, HasFailureChild) IN
  [k \in 1..Len(failed) |-> recordOf(failed[k], FirstFailureChild(failed[k]))]

\* The testcases the loop of line 35 has visited.
Visited == SubSeq(doc, 1, tcIndex - 1)

\* C1: every run on an existing, well-formed file from which at least one
\* failure record is extracted ends with a non-zero exit status, and (unless
\* an error ended it) only after the console report, the annotations, the
\* summary file when GITHUB_STEP_SUMMARY is set and the PR comment step when
\* PR_NUMBER is set have run.
C1_NonZeroExitAfterSinks ==
  (pc = "done" /\ HasPath /\ fileExists /\ failures # <<>>) =>
    /\ exitStatus # 0
    /\ uncaught = "" =>
         /\ stdout = FullStdout
         /\ summary_path # <<>> => summaryState = "written"
         /\ pr_number # <<>> => cliCalls # <<>>

\* C2: when the file does not exist, or no testcase of it has a failure
\* child, the run prints nothing, never opens the summary file, calls no
\* CLI subprocess and ends with exit status 0, whatever the environment.
C2_EmptyIsSilent ==
  (HasPath /\ (~fileExists \/ \A k \in 1..Len(doc) : ~HasFailureChild(doc[k]))) =>
    /\ stdout = <<>>
    /\ summaryState = "closed"
    /\ cliCalls = <<>>
    /\ pc = "done" => exitStatus = 0

C2_Witness ==
  /\ pc = "done"
  /\ fileExists
  /\ doc # <<>>
  /\ \A k \in 1..Len(doc) : ~HasFailureChild(doc[k])
  /\ summary_path # <<>>
  /\ pr_number # <<>>
  /\ exitStatus = 0

\* C3 as stated: the records are one per failure element of the document,
\* whatever its place, in document order.
C3_RecordPerFailureElement ==
  Extracted => failures = RecordPerFailureElement(doc)

\* C3 as amended: the records are one per testcase element that has at
\* least one failure element as a direct child (made from the first such
\* child), in document order of those testcase elements.
C3_RecordPerFailedTestcase ==
  pc = "iter" => failures = RecordPerFailedTestcase(Visited)

C3_Witness ==
  /\ Extracted
  /\ Len(failures) = 2
  /\ failures[1] # failures[2]
  /\ Len(RecordPerFailureElement(doc)) > 2

\* C4: after two successive runs with the same heading and PR id and at
\* least one failure each, at most one comment of the pull request starts
\* with the heading's marker.
C4_OneMarkedComment ==
  (run = 2 /\ pc = "done" /\ failures # <<>> /\ pr_number # <<>>) =>
    Cardinality({k \in 1..Len(comments) :
                   startswith(comments[k].body, comment_marker(heading))}) <= 1

\* A step of the PR comment step leaves stdout, stderr and the summary file
\* as they are, lets no exception out of main() and leads to the write call
\* or to line 130.
C5_CliStep ==
  pc \in {"lookup", "write"} =>
    /\ stdout' = stdout
    /\ stderr' = stderr
    /\ summaryFile' = summaryFile
    /\ uncaught' = ""
    /\ exitStatus' = exitStatus
    /\ pc' \in {"write", "exit"}

\* A run that called the CLI ends as a run with failures does.
C5_CliRunEnd ==
  (pc = "done" /\ cliCalls # <<>>) =>
    /\ exitStatus = 1
    /\ uncaught = ""
    /\ stdout = FullStdout

\* C5: no outcome of a CLI call (success, non-zero exit, timeout, exception
\* at launch) changes anything observable but the PR comment: every step of
\* the PR comment step leaves stdout, stderr and the summary file as they
\* are and lets no exception out of main(), and every run that called the
\* CLI ends with exit status 1 and the full report on stdout.
C5_CliOutcomesInvisible == [][C5_CliStep]_vars /\ []C5_CliRunEnd

C5_Witness ==
  /\ pc = "done"
  /\ Len(cliCalls) = 2
  /\ cliCalls[1].outcome = "nonzero"
  /\ cliCalls[2].outcome = "timeout"
  /\ summaryState = "written"
  /\ exitStatus = 1

\* C6: the short message of every failure record has at most 200
\* characters.
C6_ShortAtMost200 ==
  \A k \in 1..Len(failures) : Len(failures[k].short) <= ShortMax

\* A line that may become the short message, as C7 words it.
C7_Qualifies(line) ==
  /\ line # <<>>
  /\ \E k \in 1..Len(RunMarker) : k > Len(line) \/ line[k] # RunMarker[k]
  /\ \E k \in 1..Len(FailMarker) : k > Len(line) \/ line[k] # FailMarker[k]

\* The lines of a detail, each trimmed of surrounding whitespace.
C7_TrimmedLines(detail) ==
  [k \in 1..Len(split(detail, "\n")) |-> strip(split(detail, "\n")[k])]

C8_SummaryErrorIsFatal ==
  summaryState = "failed" =>
    /\ pc = "done"
    /\ exitStatus # 0
    /\ cliCalls = <<>>
    /\ stdout = FullStdout

C8_Witness ==
  /\ summaryState = "failed"
  /\ pr_number # <<>>
  /\ summaryFile # <<>>
  /\ pc = "done"

\* The first line of a text.
C9_FirstLine(out) == split(out, "\n")[1]

C10_FailedLookupAbandons ==
  (cliCalls # <<>> /\ cliCalls[1].outcome \in {"nonzero", "timeout", "oserror"}) =>
    Len(cliCalls) = 1

====
